---- MODULE Spec2Model ----
(***************************************************************************)
(* Model of services/adapters/utils.py (Foxel): the listing and streaming  *)
(* helpers shared by the storage adapters.                                 *)
(*                                                                         *)
(*   Spec       parse_range_header followed by build_stream_headers        *)
(*   SpecSort   sort_and_paginate_entries called repeatedly on one list     *)
(*   SpecGuard  check_file_exists against an adapter                       *)
(*                                                                         *)
(* Text is a sequence of one-character strings.  Python's None is the      *)
(* record NoneStr; a present string s is Some(s).                          *)
(***************************************************************************)
EXTENDS Integers, Sequences, FiniteSets, Bags, TLC

VARIABLES
    pc,            \* position of the caller: "start", "parsed", "built", "sort", "sorted", "guard"
    range_header,  \* argument of parse_range_header
    file_size,     \* argument of parse_range_header and build_stream_headers
    rangeRet,      \* outcome of parse_range_header
    headers,       \* dict returned by build_stream_headers
    entries,       \* the caller's list handed to sort_and_paginate_entries
    sortCall,      \* arguments of the last sort_and_paginate_entries call
    sortRet,       \* its outcome
    adapter,       \* the adapter_instance handed to check_file_exists
    guardCall,     \* arguments of the last check_file_exists call
    guardRet       \* its outcome

vars == <<pc, range_header, file_size, rangeRet, headers,
          entries, sortCall, sortRet, adapter, guardCall, guardRet>>

rangeVars == <<range_header, file_size, rangeRet, headers>>
sortVars  == <<entries, sortCall, sortRet>>
guardVars == <<adapter, guardCall, guardRet>>

(***************************************************************************)
(* Bounds                                                                  *)
(***************************************************************************)
MaxPartLen  == 4   \* characters after "bytes=" in a generated header
MaxFileSize == 3   \* file_size ranges over 0..MaxFileSize
MaxEntries  == 3   \* length of the caller's entry list
MaxPageNum  == 3   \* page_num ranges over -MaxPageNum..MaxPageNum
MaxPageSize == 2   \* page_size ranges over 1..MaxPageSize

(***************************************************************************)
(* Text helpers                                                            *)
(***************************************************************************)
NoneStr == [present |-> FALSE, text |-> <<>>]
Some(s) == [present |-> TRUE, text |-> s]

\* Python truthiness of an optional string: None and "" are falsy.
Truthy(o) == o.present /\ Len(o.text) > 0

BytesPrefix == <<"b", "y", "t", "e", "s", "=">>

Digits == {"0", "1", "2", "3", "4", "5", "6", "7", "8", "9"}

DigitVal(c) ==
    CASE c = "0" -> 0 [] c = "1" -> 1 [] c = "2" -> 2 [] c = "3" -> 3
      [] c = "4" -> 4 [] c = "5" -> 5 [] c = "6" -> 6 [] c = "7" -> 7
      [] c = "8" -> 8 [] c = "9" -> 9

DigitChar(d) == <<"0", "1", "2", "3", "4", "5", "6", "7", "8", "9">>[d + 1]

\* str.startswith
StartsWith(s, p) == Len(s) >= Len(p) /\ SubSeq(s, 1, Len(p)) = p

\* str.removeprefix
RemovePrefix(s, p) == IF StartsWith(s, p) THEN SubSeq(s, Len(p) + 1, Len(s)) ELSE s

\* str.strip() for the whitespace of the alphabet
RECURSIVE LStrip(_)
LStrip(s) == IF Len(s) > 0 /\ Head(s) = " " THEN LStrip(Tail(s)) ELSE s

RECURSIVE RStrip(_)
RStrip(s) ==
    IF Len(s) > 0 /\ s[Len(s)] = " " THEN RStrip(SubSeq(s, 1, Len(s) - 1)) ELSE s

Strip(s) == RStrip(LStrip(s))

\* index of the first occurrence of c in s, 0 when there is none
FirstIndex(s, c) ==
    IF \E i \in 1..Len(s) : s[i] = c
    THEN CHOOSE i \in 1..Len(s) : s[i] = c /\ \A j \in 1..(i - 1) : s[j] # c
    ELSE 0

\* part.split("-", 1): one piece without a separator, two pieces otherwise
Split1(part) ==
    LET i == FirstIndex(part, "-") IN
    IF i = 0 THEN <<part>>
    ELSE <<SubSeq(part, 1, i - 1), SubSeq(part, i + 1, Len(part))>>

AllDigits(s) == Len(s) > 0 /\ \A i \in 1..Len(s) : s[i] \in Digits

RECURSIVE DigitsVal(_)
DigitsVal(s) ==
    IF Len(s) = 0 THEN 0
    ELSE 10 * DigitsVal(SubSeq(s, 1, Len(s) - 1)) + DigitVal(s[Len(s)])

\* int(s): surrounding whitespace stripped, one optional sign, then digits
IntBody(s) ==
    LET t == Strip(s) IN
    IF Len(t) > 0 /\ t[1] \in {"+", "-"} THEN Tail(t) ELSE t

IntOk(s) == AllDigits(IntBody(s))

IntVal(s) ==
    LET t == Strip(s) IN
    IF Len(t) > 0 /\ t[1] = "-" THEN 0 - DigitsVal(IntBody(s)) ELSE DigitsVal(IntBody(s))

\* str(n) for an int
RECURSIVE NatStr(_)
NatStr(n) == IF n < 10 THEN <<DigitChar(n)>> ELSE NatStr(n \div 10) \o <<DigitChar(n % 10)>>

Str(n) == IF n < 0 THEN <<"-">> \o NatStr(0 - n) ELSE NatStr(n)

(***************************************************************************)
(* parse_range_header                                                      *)
(***************************************************************************)
Returned(start, end, status, is_partial) ==
    [kind |-> "return", start |-> start, end |-> end,
     status |-> status, is_partial |-> is_partial]

Raised(exc) ==
    [kind |-> exc, start |-> 0, end |-> 0, status |-> 0, is_partial |-> FALSE]

NoResult == Raised("none")

\* the guard of the range branch
IsRangeRequest(h) == Truthy(h) /\ StartsWith(h.text, BytesPrefix)

\* if s.strip(): start = int(s)   /   if e.strip(): end = int(e)
FieldGiven(f) == Len(Strip(f)) > 0

\* if start >= file_size: raise IndexError
NotSatisfiable_strict(start, size) == start > size
NotSatisfiable(start, size) == start >= size

\* if end >= file_size: end = file_size - 1
ClampEnd(end, size) == IF end >= size THEN size - 1 ELSE end

StatusOf_flat(is_partial) == 200
StatusOf(is_partial) == IF is_partial THEN 206 ELSE 200

parse_range_header(h, size) ==
    IF ~IsRangeRequest(h) THEN Returned(0, size - 1, StatusOf(FALSE), FALSE)
    ELSE
      LET pieces == Split1(RemovePrefix(h.text, BytesPrefix)) IN
      IF Len(pieces) # 2 THEN Raised("ValueError")
      ELSE
        LET s == pieces[1]
            e == pieces[2]
        IN
        IF FieldGiven(s) /\ ~IntOk(s) THEN Raised("ValueError")
        ELSE IF FieldGiven(e) /\ ~IntOk(e) THEN Raised("ValueError")
        ELSE
          LET start == IF FieldGiven(s) THEN IntVal(s) ELSE 0
              end   == IF FieldGiven(e) THEN IntVal(e) ELSE size - 1
          IN
          IF NotSatisfiable(start, size) THEN Raised("IndexError")
          ELSE Returned(start, ClampEnd(end, size), StatusOf(TRUE), TRUE)

(***************************************************************************)
(* build_stream_headers                                                    *)
(***************************************************************************)
\* urllib.parse.quote(filename): unreserved characters and "/" are kept,
\* the others are percent-encoded
QuoteChar(c) ==
    CASE c = " "  -> <<"%", "2", "0">>
      [] c = "\"" -> <<"%", "2", "2">>
      [] OTHER    -> <<c>>

RECURSIVE Quote(_)
Quote(s) == IF Len(s) = 0 THEN <<>> ELSE QuoteChar(Head(s)) \o Quote(Tail(s))

ContentRange(start, end, size) ==
    <<"b", "y", "t", "e", "s", " ">> \o Str(start) \o <<"-">> \o Str(end)
        \o <<"/">> \o Str(size)

ContentDisposition(filename) ==
    <<"i", "n", "l", "i", "n", "e", ";", " ", "f", "i", "l", "e", "n", "a", "m", "e", "=", "\"">>
        \o Quote(filename) \o <<"\"">>

build_stream_headers(content_type, size, start, end, is_partial, filename) ==
    LET base == [k \in {"Accept-Ranges", "Content-Type"} |->
                    IF k = "Accept-Ranges" THEN <<"b", "y", "t", "e", "s">>
                    ELSE content_type]
        ranged == IF is_partial
                  THEN base @@ [k \in {"Content-Range", "Content-Length"} |->
                                   IF k = "Content-Range"
                                   THEN ContentRange(start, end, size)
                                   ELSE Str(end - start + 1)]
                  ELSE base @@ [k \in {"Content-Length"} |-> Str(size)]
    IN
    IF Truthy(filename)
    THEN ranged @@ [k \in {"Content-Disposition"} |-> ContentDisposition(filename.text)]
    ELSE ranged

(***************************************************************************)
(* Inputs of the range specification                                       *)
(***************************************************************************)
RangeAlphabet == {"0", "2", "5", "-", " ", "+", "x"}

SeqsUpTo(S, n) == UNION {[1..k -> S] : k \in 0..n}

Parts == SeqsUpTo(RangeAlphabet, MaxPartLen)

RangeHeaders ==
    {NoneStr}
      \cup {Some(BytesPrefix \o p) : p \in Parts}
      \cup {Some(p) : p \in SeqsUpTo(RangeAlphabet, 2)}
      \cup {Some(<<"B", "y", "t", "e", "s", "=">> \o p) : p \in SeqsUpTo({"0", "-"}, 2)}
      \cup {Some(<<"b", "y", "t", "e", "s">> \o p) : p \in SeqsUpTo({"0", "-"}, 2)}

ContentTypes == {<<"t", "/", "p">>, <<"i", "/", "j">>}

FileNames == {NoneStr, Some(<<>>), Some(<<"a", " ", "b">>), Some(<<"a", "/", "\"">>)}

EmptyDict == [k \in {} |-> <<>>]

NoSortCall == [entries |-> <<>>, page_num |-> 0, page_size |-> 0,
               sort_by |-> "", sort_order |-> ""]
NoSortRet == [kind |-> "none", page |-> <<>>, total |-> 0]
NoAdapter == [exists |-> "absent", files |-> {}]
NoGuardCall == [root |-> "", rel |-> "", overwrite |-> FALSE, outcome |-> "",
                invoked |-> FALSE]
NoGuardRet == [kind |-> "none", status |-> 0]

RangeIdle ==
    /\ range_header = NoneStr
    /\ file_size = 0
    /\ rangeRet = NoResult
    /\ headers = EmptyDict

SortIdle ==
    /\ entries = <<>>
    /\ sortCall = NoSortCall
    /\ sortRet = NoSortRet

GuardIdle ==
    /\ adapter = NoAdapter
    /\ guardCall = NoGuardCall
    /\ guardRet = NoGuardRet

(***************************************************************************)
(* Spec: a request parses its Range header, then builds the headers        *)
(***************************************************************************)
Init ==
    /\ pc = "start"
    /\ range_header \in RangeHeaders
    /\ file_size \in 0..MaxFileSize
    /\ rangeRet = NoResult
    /\ headers = EmptyDict
    /\ SortIdle
    /\ GuardIdle

ParseRangeHeader ==
    /\ pc = "start"
    /\ rangeRet' = parse_range_header(range_header, file_size)
    /\ pc' = "parsed"
    /\ UNCHANGED <<range_header, file_size, headers, sortVars, guardVars>>

BuildStreamHeaders ==
    /\ pc = "parsed"
    /\ rangeRet.kind = "return"
    /\ \E content_type \in ContentTypes, filename \in FileNames :
          headers' = build_stream_headers(content_type, file_size, rangeRet.start,
                                          rangeRet.end, rangeRet.is_partial, filename)
    /\ pc' = "built"
    /\ UNCHANGED <<range_header, file_size, rangeRet, sortVars, guardVars>>

Next == ParseRangeHeader \/ BuildStreamHeaders

Spec == Init /\ [][Next]_vars

(***************************************************************************)
(* sort_and_paginate_entries                                               *)
(***************************************************************************)
UpperLetters == <<"A", "B", "C", "D", "E", "F", "G", "H", "I", "J", "K", "L", "M",
                  "N", "O", "P", "Q", "R", "S", "T", "U", "V", "W", "X", "Y", "Z">>
LowerLetters == <<"a", "b", "c", "d", "e", "f", "g", "h", "i", "j", "k", "l", "m",
                  "n", "o", "p", "q", "r", "s", "t", "u", "v", "w", "x", "y", "z">>

IndexIn(seq, c) == IF \E i \in 1..Len(seq) : seq[i] = c
                   THEN CHOOSE i \in 1..Len(seq) : seq[i] = c
                   ELSE 0

\* str.lower(), character by character
LowerChar(c) == IF IndexIn(UpperLetters, c) > 0 THEN LowerLetters[IndexIn(UpperLetters, c)] ELSE c

Lower(s) == [i \in 1..Len(s) |-> LowerChar(s[i])]

\* code point of a letter; Python compares str by code point
Ord(c) == IF IndexIn(UpperLetters, c) > 0 THEN 64 + IndexIn(UpperLetters, c)
          ELSE 96 + IndexIn(LowerLetters, c)

RECURSIVE StrLess(_, _)
StrLess(a, b) ==
    IF Len(b) = 0 THEN FALSE
    ELSE IF Len(a) = 0 THEN TRUE
    ELSE IF Ord(Head(a)) # Ord(Head(b)) THEN Ord(Head(a)) < Ord(Head(b))
    ELSE StrLess(Tail(a), Tail(b))

W_name  == <<"n", "a", "m", "e">>
W_size  == <<"s", "i", "z", "e">>
W_mtime == <<"m", "t", "i", "m", "e">>
W_asc   == <<"a", "s", "c">>
W_desc  == <<"d", "e", "s", "c">>

\* reverse = sort_order.lower() == "desc"
Reverse(sort_order) == Lower(sort_order) = W_desc

\* second component of get_sort_key compared: name (lowered), size or mtime
FieldLess(x, y, sort_by) ==
    LET sort_field == Lower(sort_by) IN
    IF sort_field = W_size THEN x.size < y.size
    ELSE IF sort_field = W_mtime THEN x.mtime < y.mtime
    ELSE StrLess(Lower(x.name), Lower(y.name))

\* tuple comparison of get_sort_key(x) < get_sort_key(y); the first
\* component is (not is_dir), and False < True
KeyLess(x, y, sort_by) ==
    IF x.is_dir # y.is_dir THEN x.is_dir
    ELSE FieldLess(x, y, sort_by)

\* x must come before y in the result of list.sort(key, reverse)
Before(x, y, sort_by, reverse) ==
    IF reverse THEN KeyLess(y, x, sort_by) ELSE KeyLess(x, y, sort_by)

\* list.sort is stable, also with reverse=True: an entry goes after every
\* entry already placed that it does not strictly precede
InsertStable(sorted, x, sort_by, reverse) ==
    LET hits == {i \in 1..Len(sorted) : Before(x, sorted[i], sort_by, reverse)} IN
    IF hits = {} THEN Append(sorted, x)
    ELSE LET i == CHOOSE k \in hits : \A j \in hits : k <= j IN
         SubSeq(sorted, 1, i - 1) \o <<x>> \o SubSeq(sorted, i, Len(sorted))

RECURSIVE SortFrom(_, _, _, _)
SortFrom(sorted, rest, sort_by, reverse) ==
    IF Len(rest) = 0 THEN sorted
    ELSE SortFrom(InsertStable(sorted, Head(rest), sort_by, reverse), Tail(rest),
                  sort_by, reverse)

\* entries.sort(key=get_sort_key, reverse=reverse)
SortEntries(list, sort_by, sort_order) ==
    SortFrom(<<>>, list, sort_by, Reverse(sort_order))

\* Python slice seq[a:b]: negative indices count from the end, all clipped
SliceIndex(i, n) == IF i < 0 THEN (IF i + n < 0 THEN 0 ELSE i + n)
                    ELSE (IF i > n THEN n ELSE i)

PySlice(seq, a, b) ==
    LET lo == SliceIndex(a, Len(seq))
        hi == SliceIndex(b, Len(seq))
    IN IF lo >= hi THEN <<>> ELSE SubSeq(seq, lo + 1, hi)

StartIdx_zero_based(page_num, page_size) == page_num * page_size
StartIdx(page_num, page_size) == (page_num - 1) * page_size

\* the list after the in-place sort, the page and the total count
sort_and_paginate_entries(list, page_num, page_size, sort_by, sort_order) ==
    LET sorted    == SortEntries(list, sort_by, sort_order)
        start_idx == StartIdx(page_num, page_size)
        end_idx   == start_idx + page_size
    IN [list  |-> sorted,
        page  |-> PySlice(sorted, start_idx, end_idx),
        total |-> Len(sorted)]

Entry(name, is_dir, size, mtime) ==
    [name |-> name, is_dir |-> is_dir, size |-> size, mtime |-> mtime]

EntryPool ==
    { Entry(<<"b">>, TRUE, 0, 2),
      Entry(<<"a">>, FALSE, 2, 1),
      Entry(<<"B">>, FALSE, 1, 2),
      Entry(<<"A", "b">>, TRUE, 0, 1) }

EntryLists == SeqsUpTo(EntryPool, MaxEntries)

PageNums  == (0 - MaxPageNum)..MaxPageNum
PageSizes == 1..MaxPageSize
SortBys   == {W_name, <<"S", "i", "z", "e">>, W_mtime, <<"t", "y", "p", "e">>}
SortOrders == {W_asc, W_desc, <<"D", "e", "s", "c">>}

\* The caller holds one list and the arguments of its request; it asks for
\* a page, and may then ask for the following pages of the same list.
InitSort ==
    /\ pc = "sort"
    /\ entries \in EntryLists
    /\ \E page_num \in PageNums, page_size \in PageSizes,
          sort_by \in SortBys, sort_order \in SortOrders :
          sortCall = [entries |-> entries, page_num |-> page_num,
                      page_size |-> page_size, sort_by |-> sort_by,
                      sort_order |-> sort_order]
    /\ sortRet = NoSortRet
    /\ RangeIdle
    /\ GuardIdle

\* one call of sort_and_paginate_entries(entries, page_num, ...): the list
\* is sorted in place and the page and the count are returned
Call(page_num) ==
    LET r == sort_and_paginate_entries(entries, page_num, sortCall.page_size,
                                       sortCall.sort_by, sortCall.sort_order)
    IN /\ entries' = r.list
       /\ sortCall' = [sortCall EXCEPT !.entries = entries, !.page_num = page_num]
       /\ sortRet' = [kind |-> "return", page |-> r.page, total |-> r.total]

SortAndPaginate ==
    /\ pc = "sort"
    /\ Call(sortCall.page_num)
    /\ pc' = "sorted"
    /\ UNCHANGED <<rangeVars, guardVars>>

SortAndPaginateNextPage ==
    /\ pc = "sorted"
    /\ sortCall.page_num < MaxPageNum
    /\ Call(sortCall.page_num + 1)
    /\ UNCHANGED <<pc, rangeVars, guardVars>>

NextSort == SortAndPaginate \/ SortAndPaginateNextPage

SpecSort == InitSort /\ [][NextSort]_vars

(***************************************************************************)
(* check_file_exists                                                       *)
(***************************************************************************)
Roots == {"r1", "r2"}
Rels  == {"a.txt", "b.txt"}

\* what awaiting adapter.exists(root, rel) does: it answers, or it raises
\* an ordinary Exception, an HTTPException (409 or another status), or a
\* BaseException such as asyncio.CancelledError
Outcomes == {"answer", "Exception", "HTTP409", "HTTP500", "BaseException"}

Conflict == 409

GuardOk == [kind |-> "ok", status |-> 0]
GuardRaised(kind, status) == [kind |-> kind, status |-> status]

\* except HTTPException: raise / except Exception: pass
Handle(outcome) ==
    CASE outcome = "HTTP409"       -> GuardRaised("HTTPException", Conflict)
      [] outcome = "HTTP500"       -> GuardRaised("HTTPException", 500)
      [] outcome = "BaseException" -> GuardRaised("BaseException", 0)
      [] OTHER                     -> GuardOk

\* exists_func = getattr(adapter_instance, "exists", None); callable(exists_func)
HasCallableExists(a) == a.exists = "callable"

\* whether the body awaits exists_func at all
Invokes(a, overwrite) == ~overwrite /\ HasCallableExists(a)

check_file_exists(a, root, rel, overwrite, outcome) ==
    IF ~Invokes(a, overwrite) THEN GuardOk
    ELSE IF outcome = "answer"
         THEN IF <<root, rel>> \in a.files
              THEN GuardRaised("HTTPException", Conflict)
              ELSE GuardOk
         ELSE Handle(outcome)

Adapters == [exists : {"absent", "notcallable", "callable"},
             files  : SUBSET (Roots \X Rels)]

InitGuard ==
    /\ pc = "guard"
    /\ adapter \in Adapters
    /\ guardCall = NoGuardCall
    /\ guardRet = NoGuardRet
    /\ RangeIdle
    /\ SortIdle

CheckFileExists ==
    /\ pc = "guard"
    /\ \E root \in Roots, rel \in Rels, overwrite \in BOOLEAN, outcome \in Outcomes :
          /\ guardCall' = [root |-> root, rel |-> rel, overwrite |-> overwrite,
                           outcome |-> IF Invokes(adapter, overwrite) THEN outcome ELSE "",
                           invoked |-> Invokes(adapter, overwrite)]
          /\ guardRet' = check_file_exists(adapter, root, rel, overwrite, outcome)
    /\ UNCHANGED <<pc, adapter, rangeVars, sortVars>>

NextGuard == CheckFileExists

SpecGuard == InitGuard /\ [][NextGuard]_vars

(***************************************************************************)
(* Properties of parse_range_header and build_stream_headers (Spec)        *)
(***************************************************************************)
Parsed == pc \in {"parsed", "built"}

\* the text after "bytes=", and its two fields around the first "-"
RangePart == RemovePrefix(range_header.text, BytesPrefix)
HasSeparator == FirstIndex(RangePart, "-") > 0
StartField == Split1(RangePart)[1]
EndField == Split1(RangePart)[2]

FieldParses(f) == ~FieldGiven(f) \/ IntOk(f)
ResolvedStart == IF FieldGiven(StartField) THEN IntVal(StartField) ELSE 0

\* a field that is given and is not a non-negative decimal number
Malformed(f) == FieldGiven(f) /\ ~(IntOk(f) /\ IntVal(f) >= 0)

\* C1: every returned range satisfies 0 <= start <= end <= file_size - 1
\* when file_size >= 1.
C1_RangeWithinFile ==
    (Parsed /\ rangeRet.kind = "return" /\ file_size >= 1)
        => /\ 0 <= rangeRet.start
           /\ rangeRet.start <= rangeRet.end
           /\ rangeRet.end <= file_size - 1

\* C4 as stated: a "bytes=" header whose resolved start is >= file_size
\* fails with IndexError, whatever its end field is; a resolved start below
\* file_size never fails with IndexError.
C4_Original ==
    (Parsed /\ IsRangeRequest(range_header) /\ HasSeparator /\ FieldParses(StartField))
        => /\ ResolvedStart >= file_size => rangeRet.kind = "IndexError"
           /\ ResolvedStart < file_size => rangeRet.kind # "IndexError"

\* C4 amended: a "bytes=" header whose two fields both parse and whose
\* resolved start is >= file_size fails with IndexError (also for an omitted
\* start and file_size = 0); a resolved start below file_size never fails
\* with IndexError, and no other header does.
C4_NotSatisfiable ==
    Parsed =>
      /\ (IsRangeRequest(range_header) /\ HasSeparator /\ FieldParses(StartField))
            => /\ (ResolvedStart >= file_size /\ FieldParses(EndField))
                     => rangeRet.kind = "IndexError"
               /\ ResolvedStart < file_size => rangeRet.kind # "IndexError"
      /\ rangeRet.kind = "IndexError"
            => /\ IsRangeRequest(range_header) /\ HasSeparator
               /\ FieldParses(StartField) /\ ResolvedStart >= file_size

C4_Witness ==
    /\ pc = "parsed"
    /\ IsRangeRequest(range_header) /\ HasSeparator
    /\ FieldGiven(StartField) /\ IntOk(StartField)
    /\ ResolvedStart = file_size /\ file_size > 0
    /\ rangeRet.kind = "IndexError"

\* C5: a "bytes=" header without a "-" separator, or with a start or end
\* field that is given but is not a non-negative decimal offset, fails with
\* ValueError and returns nothing.
C5_MalformedIsBadRequest ==
    (Parsed /\ IsRangeRequest(range_header)
        /\ (~HasSeparator \/ Malformed(StartField) \/ Malformed(EndField)))
        => rangeRet.kind = "ValueError"

\* C6: a header that is absent, empty or does not start with "bytes=" gives
\* exactly (0, file_size - 1, 200, false); a "bytes=" header that does not
\* fail gives status 206 and is_partial true.
C6_FullOrPartial ==
    Parsed =>
      /\ (~range_header.present \/ range_header.text = <<>>
            \/ ~StartsWith(range_header.text, BytesPrefix))
            => rangeRet = Returned(0, file_size - 1, 200, FALSE)
      /\ (range_header.present /\ StartsWith(range_header.text, BytesPrefix)
            /\ rangeRet.kind = "return")
            => rangeRet.status = 206 /\ rangeRet.is_partial

C6_Witness ==
    /\ pc = "parsed"
    /\ range_header.present /\ StartsWith(range_header.text, BytesPrefix)
    /\ HasSeparator
    /\ FieldGiven(StartField) /\ FieldGiven(EndField)
    /\ rangeRet.kind = "return" /\ rangeRet.status = 206 /\ rangeRet.is_partial

\* what a client reads back from a Content-Range value "bytes a-b/n"
ClientSpan(v) ==
    LET unit == <<"b", "y", "t", "e", "s", " ">>
        rest == RemovePrefix(v, unit)
        dash == FirstIndex(rest, "-")
        tail == SubSeq(rest, dash + 1, Len(rest))
        slash == FirstIndex(tail, "/")
        a == SubSeq(rest, 1, dash - 1)
        b == SubSeq(tail, 1, slash - 1)
        n == SubSeq(tail, slash + 1, Len(tail))
    IN IF StartsWith(v, unit) /\ dash > 0 /\ slash > 0
          /\ AllDigits(a) /\ AllDigits(b) /\ AllDigits(n)
       THEN [ok |-> TRUE, start |-> DigitsVal(a), end |-> DigitsVal(b), size |-> DigitsVal(n)]
       ELSE [ok |-> FALSE, start |-> 0, end |-> 0, size |-> 0]

\* C8: the headers built from a parsed range describe the same span: for a
\* partial result Content-Range reads back as (start, end, file_size) and
\* Content-Length is end - start + 1; for a full result there is no
\* Content-Range and Content-Length is file_size; Content-Length is always a
\* non-negative number and Accept-Ranges is "bytes".
C8_HeadersDescribeSpan ==
    pc = "built" =>
      /\ rangeRet.is_partial =>
            /\ "Content-Range" \in DOMAIN headers
            /\ ClientSpan(headers["Content-Range"])
                 = [ok |-> TRUE, start |-> rangeRet.start, end |-> rangeRet.end,
                    size |-> file_size]
            /\ headers["Content-Length"] = Str(rangeRet.end - rangeRet.start + 1)
      /\ ~rangeRet.is_partial =>
            /\ "Content-Range" \notin DOMAIN headers
            /\ headers["Content-Length"] = Str(file_size)
      /\ AllDigits(headers["Content-Length"])
      /\ headers["Accept-Ranges"] = <<"b", "y", "t", "e", "s">>

(***************************************************************************)
(* Properties of sort_and_paginate_entries (SpecSort)                      *)
(***************************************************************************)
SortReturned == sortRet.kind = "return"

DirsFirst(seq) ==
    \A i, j \in 1..Len(seq) : (i < j /\ seq[j].is_dir) => seq[i].is_dir

Ceil(n, d) == (n + d - 1) \div d

BagOf(seq) ==
    [x \in {seq[i] : i \in 1..Len(seq)} |-> Cardinality({i \in 1..Len(seq) : seq[i] = x})]

\* the pages first..last requested one after the other on the same list
RECURSIVE PagesFrom(_, _, _, _, _, _)
PagesFrom(list, first, last, page_size, sort_by, sort_order) ==
    IF first > last THEN <<>>
    ELSE LET r == sort_and_paginate_entries(list, first, page_size, sort_by, sort_order)
         IN r.page \o PagesFrom(r.list, first + 1, last, page_size, sort_by, sort_order)

\* C2: in the page and in the full ordering no file precedes a directory,
\* for every sort_by and sort_order.
C2_DirectoriesFirst ==
    SortReturned => DirsFirst(entries) /\ DirsFirst(sortRet.page)

\* C3: a call returns at most page_size items and the count of the list;
\* the pages 1..ceil(n / page_size) concatenated are the full sorted list,
\* each entry once.
C3_PagesCoverList ==
    SortReturned =>
      LET n == Len(sortCall.entries)
          all == PagesFrom(sortCall.entries, 1, Ceil(n, sortCall.page_size),
                           sortCall.page_size, sortCall.sort_by, sortCall.sort_order)
      IN /\ Len(sortRet.page) <= sortCall.page_size
         /\ sortRet.total = n
         /\ all = SortEntries(sortCall.entries, sortCall.sort_by, sortCall.sort_order)
         /\ BagOf(all) = BagOf(sortCall.entries)
         /\ (sortCall.page_num \in 1..Ceil(n, sortCall.page_size)) =>
               sortRet.page = SubSeq(all, (sortCall.page_num - 1) * sortCall.page_size + 1,
                                     IF sortCall.page_num * sortCall.page_size < n
                                     THEN sortCall.page_num * sortCall.page_size ELSE n)

C3_Witness ==
    /\ SortReturned
    /\ Len(sortCall.entries) = 3 /\ sortCall.page_size = 2 /\ sortCall.page_num = 2
    /\ Len(sortRet.page) = 1 /\ sortRet.total = 3
    /\ entries # sortCall.entries

\* C9: a page number below 1 or above ceil(n / page_size) gives an empty
\* page and the count n.
C9_OutOfRangePageEmpty ==
    (SortReturned
        /\ (sortCall.page_num < 1
              \/ sortCall.page_num > Ceil(Len(sortCall.entries), sortCall.page_size)))
        => sortRet.page = <<>> /\ sortRet.total = Len(sortCall.entries)

\* C10: after a call the caller's list holds the same records in the same
\* order as before the call.
C10_InputUnchanged ==
    SortReturned => entries = sortCall.entries

(***************************************************************************)
(* Properties of check_file_exists (SpecGuard)                             *)
(***************************************************************************)
\* the capability was asked and answered true for (root, rel)
AnsweredTrue ==
    /\ guardCall.invoked /\ guardCall.outcome = "answer"
    /\ <<guardCall.root, guardCall.rel>> \in adapter.files

\* C7: the call raises the 409 conflict exactly when overwrite is false, the
\* adapter has a callable exists and it answers true; with overwrite true,
\* no capability, an answer of false or a capability that raises an error
\* other than a conflict the call completes; with overwrite true the
\* capability is not invoked.
C7_ConflictIffExists ==
    (guardRet.kind # "none" /\ guardCall.outcome \notin {"HTTP409", "BaseException"})
        => /\ (guardRet.kind = "HTTPException" /\ guardRet.status = Conflict)
                 <=> (~guardCall.overwrite /\ HasCallableExists(adapter) /\ AnsweredTrue)
           /\ ~(~guardCall.overwrite /\ HasCallableExists(adapter) /\ AnsweredTrue)
                 => guardRet.kind = "ok"
           /\ guardCall.overwrite => ~guardCall.invoked

====
